---- MODULE Spec2Model ----
(***************************************************************************)
(* Interaction extraction -> aggregation -> graph construction -> metrics  *)
(* pipeline of the HongLouMeng ego-network analysis scripts                *)
(* (1_data_preparation.py, 2_interaction_extraction.py,                    *)
(* 3_network_analysis.py, 4_advanced_network_analysis.py).                 *)
(*                                                                         *)
(* A Python str is modelled as the sequence of its Unicode code points, so *)
(* that `in`, re.split and str.join are computed character by character.   *)
(* A character id (a dict key such as 薛寶釵) is the str itself.           *)
(* Interaction types: "Dialogue" = 对话, "Action" = 行为,                  *)
(* "CoOccurrence" = 共同出现.                                              *)
(***************************************************************************)
EXTENDS Integers, Sequences, FiniteSets, TLC

VARIABLES
  pc,                \* position of the batch run (stage / loop)
  selected_chapters, \* load_data(): the list read from selected_chapters.json
  files,             \* the cleaned chapter files that exist: chapter number -> text
  loaded,            \* load_data(): number of selected chapters its loop has visited
  chapters,          \* load_data(): chapter number -> cleaned text
  chapter_keys,      \* load_data(): the keys of chapters in insertion order
  todo,              \* main(): chapter numbers the extraction loop has not visited yet
  all_interactions,  \* main(): raw event log
  folded,            \* main(): number of events the aggregation loop has consumed
  interaction_dict,  \* main(): aggregated records, in first-insertion order
  df_interactions,   \* the aggregated-edge table (rows)
  G,                 \* build_network(): the directed weighted graph
  target_metrics,    \* calculate_centrality_metrics() result
  all_metrics,       \* get_all_centrality_metrics() result
  raises,            \* the guarded library calls that raise on G
  report,            \* 3_network_analysis.py main: the printed network statistics
  G_undirected,      \* the nx.Graph(G) the undirected metrics are computed on
  network_props      \* 4_advanced_network_analysis.py: calculate_network_properties() result

vars == <<pc, selected_chapters, files, loaded, chapters, chapter_keys, todo,
          all_interactions, folded, interaction_dict, df_interactions, G,
          target_metrics, all_metrics, raises, report, G_undirected, network_props>>

----------------------------------------------------------------------------
(* Static data of the scripts *)

\* TARGET_CHARACTER = "薛寶釵"
TARGET_CHARACTER == <<34203, 23542, 37365>>

\* character_dict, as (key, value) pairs in dict insertion order
build_character_dictionary ==
  <<
    \* 薛寶釵: 薛寶釵、寶釵、寶姐姐、薛大姑娘、薛姑娘、薛姨媽的女兒、寶丫頭   (line 67)
    [name |-> <<34203, 23542, 37365>>,
     variants |-> << <<34203, 23542, 37365>>,
                   <<23542, 37365>>,
                   <<23542, 22992, 22992>>,
                   <<34203, 22823, 22993, 23064>>,
                   <<34203, 22993, 23064>>,
                   <<34203, 23016, 23229, 30340, 22899, 20818>>,
                   <<23542, 20011, 38957>> >>],
    \* 賈寶玉: 賈寶玉、寶玉、寶二爺、寶兄弟、寶哥哥、怡紅公子、二爺   (line 70)
    [name |-> <<36040, 23542, 29577>>,
     variants |-> << <<36040, 23542, 29577>>,
                   <<23542, 29577>>,
                   <<23542, 20108, 29242>>,
                   <<23542, 20804, 24351>>,
                   <<23542, 21733, 21733>>,
                   <<24609, 32005, 20844, 23376>>,
                   <<20108, 29242>> >>],
    \* 林黛玉: 林黛玉、黛玉、林妹妹、林姑娘、顰兒、瀟湘妃子   (line 71)
    [name |-> <<26519, 40667, 29577>>,
     variants |-> << <<26519, 40667, 29577>>,
                   <<40667, 29577>>,
                   <<26519, 22969, 22969>>,
                   <<26519, 22993, 23064>>,
                   <<39024, 20818>>,
                   <<28703, 28248, 22915, 23376>> >>],
    \* 襲人: 襲人、花襲人、襲人姐姐   (line 74)
    [name |-> <<35186, 20154>>,
     variants |-> << <<35186, 20154>>,
                   <<33457, 35186, 20154>>,
                   <<35186, 20154, 22992, 22992>> >>],
    \* 鴛鴦: 鴛鴦、鴛鴦姐姐   (line 75)
    [name |-> <<40219, 40230>>,
     variants |-> << <<40219, 40230>>,
                   <<40219, 40230, 22992, 22992>> >>],
    \* 晴雯: 晴雯、晴雯姐姐   (line 76)
    [name |-> <<26228, 38639>>,
     variants |-> << <<26228, 38639>>,
                   <<26228, 38639, 22992, 22992>> >>],
    \* 鶯兒: 鶯兒、黃金鶯   (line 77)
    [name |-> <<40367, 20818>>,
     variants |-> << <<40367, 20818>>,
                   <<40643, 37329, 40367>> >>],
    \* 紫鵑: 紫鵑、紫鵑姐姐   (line 78)
    [name |-> <<32043, 40273>>,
     variants |-> << <<32043, 40273>>,
                   <<32043, 40273, 22992, 22992>> >>],
    \* 香菱: 香菱、英蓮、秋菱   (line 79)
    [name |-> <<39321, 33777>>,
     variants |-> << <<39321, 33777>>,
                   <<33521, 34030>>,
                   <<31179, 33777>> >>],
    \* 賈母: 賈母、老太太、老祖宗、史太君   (line 82)
    [name |-> <<36040, 27597>>,
     variants |-> << <<36040, 27597>>,
                   <<32769, 22826, 22826>>,
                   <<32769, 31062, 23447>>,
                   <<21490, 22826, 21531>> >>],
    \* 賈政: 賈政、老爺、政老爺   (line 83)
    [name |-> <<36040, 25919>>,
     variants |-> << <<36040, 25919>>,
                   <<32769, 29242>>,
                   <<25919, 32769, 29242>> >>],
    \* 王夫人: 王夫人、太太、二太太   (line 84)
    [name |-> <<29579, 22827, 20154>>,
     variants |-> << <<29579, 22827, 20154>>,
                   <<22826, 22826>>,
                   <<20108, 22826, 22826>> >>],
    \* 薛姨媽: 薛姨媽、薛姨媽、姨媽   (line 85)
    [name |-> <<34203, 23016, 23229>>,
     variants |-> << <<34203, 23016, 23229>>,
                   <<34203, 23016, 23229>>,
                   <<23016, 23229>> >>],
    \* 邢夫人: 邢夫人、大太太   (line 86)
    [name |-> <<37026, 22827, 20154>>,
     variants |-> << <<37026, 22827, 20154>>,
                   <<22823, 22826, 22826>> >>],
    \* 賈環: 賈環、環哥兒、環兄弟   (line 89)
    [name |-> <<36040, 29872>>,
     variants |-> << <<36040, 29872>>,
                   <<29872, 21733, 20818>>,
                   <<29872, 20804, 24351>> >>],
    \* 賈蓉: 賈蓉、蓉哥兒   (line 90)
    [name |-> <<36040, 33993>>,
     variants |-> << <<36040, 33993>>,
                   <<33993, 21733, 20818>> >>],
    \* 賈薔: 賈薔、薔哥兒   (line 91)
    [name |-> <<36040, 34196>>,
     variants |-> << <<36040, 34196>>,
                   <<34196, 21733, 20818>> >>],
    \* 史湘雲: 史湘雲、湘雲、雲妹妹、史大姑娘   (line 92)
    [name |-> <<21490, 28248, 38642>>,
     variants |-> << <<21490, 28248, 38642>>,
                   <<28248, 38642>>,
                   <<38642, 22969, 22969>>,
                   <<21490, 22823, 22993, 23064>> >>],
    \* 迎春: 迎春、二姑娘   (line 93)
    [name |-> <<36814, 26149>>,
     variants |-> << <<36814, 26149>>,
                   <<20108, 22993, 23064>> >>],
    \* 探春: 探春、三姑娘   (line 94)
    [name |-> <<25506, 26149>>,
     variants |-> << <<25506, 26149>>,
                   <<19977, 22993, 23064>> >>],
    \* 惜春: 惜春、四姑娘   (line 95)
    [name |-> <<24796, 26149>>,
     variants |-> << <<24796, 26149>>,
                   <<22235, 22993, 23064>> >>],
    \* 鳳姐: 鳳姐、鳳姐兒、鳳丫頭、璉二奶奶、王熙鳳   (line 98)
    [name |-> <<40179, 22992>>,
     variants |-> << <<40179, 22992>>,
                   <<40179, 22992, 20818>>,
                   <<40179, 20011, 38957>>,
                   <<29833, 20108, 22902, 22902>>,
                   <<29579, 29081, 40179>> >>],
    \* 尤氏: 尤氏、珍大奶奶   (line 99)
    [name |-> <<23588, 27663>>,
     variants |-> << <<23588, 27663>>,
                   <<29645, 22823, 22902, 22902>> >>],
    \* 李紈: 李紈、大奶奶、珠大奶奶   (line 100)
    [name |-> <<26446, 32008>>,
     variants |-> << <<26446, 32008>>,
                   <<22823, 22902, 22902>>,
                   <<29664, 22823, 22902, 22902>> >>],
    \* 元春: 元春、元妃、貴妃、娘娘   (line 101)
    [name |-> <<20803, 26149>>,
     variants |-> << <<20803, 26149>>,
                   <<20803, 22915>>,
                   <<36020, 22915>>,
                   <<23064, 23064>> >>],
    \* 秦鐘: 秦鐘、秦鐘兒   (line 102)
    [name |-> <<31206, 37912>>,
     variants |-> << <<31206, 37912>>,
                   <<31206, 37912, 20818>> >>],
    \* 賈瑞: 賈瑞、瑞大爺   (line 103)
    [name |-> <<36040, 29790>>,
     variants |-> << <<36040, 29790>>,
                   <<29790, 22823, 29242>> >>],
    \* 張太醫: 張太醫、張先生、張友士   (line 104)
    [name |-> <<24373, 22826, 37291>>,
     variants |-> << <<24373, 22826, 37291>>,
                   <<24373, 20808, 29983>>,
                   <<24373, 21451, 22763>> >>]
  >>

\* ['道', '說', '問', '答', '回', '笑', '叫', '勸', '罵']
DialogueWords == <<36947, 35498, 21839, 31572, 22238, 31505, 21483, 21240, 32629>>

\* ['見', '遇', '訪', '來', '去', '送', '給', '拉', '推']
ActionWords == <<35211, 36935, 35370, 20358, 21435, 36865, 32102, 25289, 25512>>

\* a character class without the question mark ？
SentenceDelimitersNoQuestion == {12290, 65281, 10}

\* the character class of re.split(r'[。！？\n]', text)
SentenceDelimiters == {12290, 65281, 65311, 10}

\* the separator of '。'.join(context_sentences)
ContextSeparator == <<12290>>

----------------------------------------------------------------------------
(* Python primitives *)

Range(s) == {s[i] : i \in DOMAIN s}

Max(a, b) == IF a >= b THEN a ELSE b

Min(a, b) == IF a <= b THEN a ELSE b

\* sub in s, for two str
Contains(sub, s) ==
  \E i \in 0..(Len(s) - Len(sub)) : SubSeq(s, i + 1, i + Len(sub)) = sub

\* s[a:b] for 0 <= a, 0 <= b <= len(s)
Slice(s, a, b) == SubSeq(s, a + 1, b)

\* the concatenation of a list of lists
RECURSIVE Concat(_)
Concat(ss) == IF ss = <<>> THEN <<>> ELSE Head(ss) \o Concat(Tail(ss))

\* sep.join(ss)
RECURSIVE Join(_, _)
Join(sep, ss) ==
  IF ss = <<>> THEN <<>>
  ELSE IF Len(ss) = 1 THEN ss[1]
  ELSE ss[1] \o sep \o Join(sep, Tail(ss))

\* re.split(r'[。！？\n]', text): the pieces between delimiters, empty pieces kept
re_split(text) ==
  LET F[i \in 0..Len(text)] ==
        IF i = 0 THEN [done |-> <<>>, cur |-> <<>>]
        ELSE LET p == F[i - 1] IN
             IF text[i] \in SentenceDelimiters
             THEN [done |-> Append(p.done, p.cur), cur |-> <<>>]
             ELSE [done |-> p.done, cur |-> Append(p.cur, text[i])]
      r == F[Len(text)]
  IN Append(r.done, r.cur)

----------------------------------------------------------------------------
(* 2_interaction_extraction.py: identify_interactions_advanced *)

\* any(variant in sentence for variant in variants)
has_variant(variants, sentence) ==
  \E k \in DOMAIN variants : Contains(variants[k], sentence)

has_target(target_variants, sentence) == has_variant(target_variants, sentence)

\* a match of the other character that does not count an alias found only
\* inside a longer alias of the table
has_other_disambiguated(char_variants, sentence) ==
  \E k \in DOMAIN char_variants :
    \E i \in 1..(Len(sentence) - Len(char_variants[k]) + 1) :
      /\ SubSeq(sentence, i, i + Len(char_variants[k]) - 1) = char_variants[k]
      /\ ~\E c \in DOMAIN build_character_dictionary :
           \E v \in DOMAIN build_character_dictionary[c].variants :
             LET longer == build_character_dictionary[c].variants[v]
             IN /\ Len(longer) > Len(char_variants[k])
                /\ \E q \in 1..i :
                     /\ i + Len(char_variants[k]) <= q + Len(longer)
                     /\ q + Len(longer) - 1 <= Len(sentence)
                     /\ SubSeq(sentence, q, q + Len(longer) - 1) = longer

\* line 59: any(variant in sentence for variant in char_variants)
has_other(char_variants, sentence) == has_variant(char_variants, sentence)

\* a classifier whose two keyword tests are in the opposite order
interaction_type_action_first(sentence) ==
  IF \E k \in DOMAIN ActionWords : Contains(<<ActionWords[k]>>, sentence)
  THEN "Action"
  ELSE IF \E k \in DOMAIN DialogueWords : Contains(<<DialogueWords[k]>>, sentence)
  THEN "Dialogue"
  ELSE "CoOccurrence"

\* the if / elif of lines 62-66
interaction_type(sentence) ==
  IF \E k \in DOMAIN DialogueWords : Contains(<<DialogueWords[k]>>, sentence)
  THEN "Dialogue"
  ELSE IF \E k \in DOMAIN ActionWords : Contains(<<ActionWords[k]>>, sentence)
  THEN "Action"
  ELSE "CoOccurrence"

\* the slice without max(0, ...): a negative start counts from the end of the list
context_sentences_unclipped(sentences, sentence_idx) ==
  Slice(sentences,
        IF sentence_idx - 1 < 0 THEN Max(0, Len(sentences) + sentence_idx - 1)
        ELSE sentence_idx - 1,
        Min(Len(sentences), sentence_idx + 2))

\* sentences[max(0, sentence_idx-1):min(len(sentences), sentence_idx+2)], 0-based idx
context_sentences(sentences, sentence_idx) ==
  Slice(sentences, Max(0, sentence_idx - 1), Min(Len(sentences), sentence_idx + 2))

\* an event that names the other character as its source
new_interaction_reversed(char_name, chapter_num, sentences, sentence_idx) ==
  [source   |-> char_name,
   target   |-> TARGET_CHARACTER,
   chapter  |-> chapter_num,
   type     |-> interaction_type(sentences[sentence_idx + 1]),
   context  |-> Join(ContextSeparator, context_sentences(sentences, sentence_idx)),
   sentence |-> sentences[sentence_idx + 1]]

\* lines 72-79: the event of one (sentence, character) pair
new_interaction(char_name, chapter_num, sentences, sentence_idx) ==
  [source   |-> TARGET_CHARACTER,
   target   |-> char_name,
   chapter  |-> chapter_num,
   type     |-> interaction_type(sentences[sentence_idx + 1]),
   context  |-> Join(ContextSeparator, context_sentences(sentences, sentence_idx)),
   sentence |-> sentences[sentence_idx + 1]]

\* an inner loop body that appends one event for every variant found
char_interactions_per_variant(char_name, char_variants, chapter_num, sentences, sentence_idx) ==
  IF char_name = TARGET_CHARACTER THEN <<>>
  ELSE Concat([k \in DOMAIN char_variants |->
                 IF Contains(char_variants[k], sentences[sentence_idx + 1])
                 THEN <<new_interaction(char_name, chapter_num, sentences, sentence_idx)>>
                 ELSE <<>>])

\* an inner loop body without the skip of the focal character's own entry
char_interactions_without_skip(char_name, char_variants, chapter_num, sentences, sentence_idx) ==
  IF has_other(char_variants, sentences[sentence_idx + 1])
  THEN <<new_interaction(char_name, chapter_num, sentences, sentence_idx)>>
  ELSE <<>>

\* lines 56-79: the body of the inner loop for one entry of the dictionary
char_interactions(char_name, char_variants, chapter_num, sentences, sentence_idx) ==
  IF char_name = TARGET_CHARACTER THEN <<>>
  ELSE IF has_other(char_variants, sentences[sentence_idx + 1])
  THEN <<new_interaction(char_name, chapter_num, sentences, sentence_idx)>>
  ELSE <<>>

\* a sentence loop that stops at the first other character it finds
sentence_interactions_first_only(sentences, sentence_idx, target_variants, other_characters_dict, chapter_num) ==
  LET all == Concat([k \in DOMAIN other_characters_dict |->
                       char_interactions(other_characters_dict[k].name,
                                         other_characters_dict[k].variants,
                                         chapter_num, sentences, sentence_idx)])
  IN IF ~has_target(target_variants, sentences[sentence_idx + 1]) THEN <<>>
     ELSE SubSeq(all, 1, Min(1, Len(all)))

\* lines 48-79: the events one sentence contributes (0-based sentence_idx)
sentence_interactions(sentences, sentence_idx, target_variants, other_characters_dict, chapter_num) ==
  IF ~has_target(target_variants, sentences[sentence_idx + 1]) THEN <<>>
  ELSE Concat([k \in DOMAIN other_characters_dict |->
                 char_interactions(other_characters_dict[k].name,
                                   other_characters_dict[k].variants,
                                   chapter_num, sentences, sentence_idx)])

\* an extractor that visits the sentences from the last to the first
identify_interactions_advanced_backwards(text, target_variants, other_characters_dict, chapter_num) ==
  LET sentences == re_split(text)
  IN Concat([j \in DOMAIN sentences |->
               sentence_interactions(sentences, Len(sentences) - j, target_variants,
                                     other_characters_dict, chapter_num)])

\* lines 45-81: the events of every sentence, in the order of the sentences
identify_interactions_advanced(text, target_variants, other_characters_dict, chapter_num) ==
  LET sentences == re_split(text)
  IN Concat([j \in DOMAIN sentences |->
               sentence_interactions(sentences, j - 1, target_variants,
                                     other_characters_dict, chapter_num)])

\* character_dict[TARGET_CHARACTER]
dict_get(character_dict, key) ==
  LET k == CHOOSE k \in DOMAIN character_dict : character_dict[k].name = key
  IN character_dict[k].variants

----------------------------------------------------------------------------
(* 2_interaction_extraction.py: main, aggregation *)

\* interaction_dict[key], the index of the record of key, 0 when the key is new
key_index(dict, key) ==
  IF \E k \in DOMAIN dict : dict[k].key = key
  THEN CHOOSE k \in DOMAIN dict : dict[k].key = key
  ELSE 0

\* the defaultdict factory of lines 121-126
default_record(key) ==
  [key |-> key, count |-> 0, types |-> <<>>, chapters |-> {}, contexts |-> <<>>]

\* a histogram that only records which types were seen
types_increment_seen(types, t) ==
  IF \E k \in DOMAIN types : types[k][1] = t THEN types ELSE Append(types, <<t, 1>>)

\* types[t] += 1 on a defaultdict(int), kept in insertion order as (type, n) pairs
types_increment(types, t) ==
  IF \E k \in DOMAIN types : types[k][1] = t
  THEN [k \in DOMAIN types |->
          IF types[k][1] = t THEN <<t, types[k][2] + 1>> ELSE types[k]]
  ELSE Append(types, <<t, 1>>)

\* if len(contexts) < 3: contexts.append(context)
ContextLimit == 3

\* a bounded list that evicts its oldest entry instead of refusing the new one
contexts_append_evicting(contexts, context) ==
  IF Len(contexts) < ContextLimit THEN Append(contexts, context)
  ELSE Append(Tail(contexts), context)

contexts_append(contexts, context) ==
  IF Len(contexts) < ContextLimit THEN Append(contexts, context) ELSE contexts

\* a record that keeps only the chapter of its latest event
record_update_last_chapter(rec, interaction) ==
  [rec EXCEPT !.count    = @ + 1,
              !.types    = types_increment(@, interaction.type),
              !.chapters = {interaction.chapter},
              !.contexts = contexts_append(@, interaction.context)]

\* the body of the loop of lines 128-134 on one record
record_update(rec, interaction) ==
  [rec EXCEPT !.count    = @ + 1,
              !.types    = types_increment(@, interaction.type),
              !.chapters = @ \cup {interaction.chapter},
              !.contexts = contexts_append(@, interaction.context)]

\* a fold that starts a fresh record for every event of a chapter not seen before
fold_interaction_restarting(dict, interaction) ==
  LET key == <<interaction.source, interaction.target>>
      k   == key_index(dict, key)
  IN IF k = 0 \/ interaction.chapter \notin dict[k].chapters
     THEN Append(dict, record_update(default_record(key), interaction))
     ELSE [dict EXCEPT ![k] = record_update(@, interaction)]

\* one iteration of the loop of lines 128-134
fold_interaction(dict, interaction) ==
  LET key == <<interaction.source, interaction.target>>
      k   == key_index(dict, key)
  IN IF k = 0
     THEN Append(dict, record_update(default_record(key), interaction))
     ELSE [dict EXCEPT ![k] = record_update(@, interaction)]

\* sorted(s) of a set of int, as a list
RECURSIVE sorted(_)
sorted(s) ==
  IF s = {} THEN <<>>
  ELSE LET m == CHOOSE x \in s : \A y \in s : x <= y
       IN <<m>> \o sorted(s \ {m})

\* the chapters in the order they were inserted into the dict
extraction_order_as_loaded(keys) == keys

\* line 105: sorted(chapters.keys())
extraction_order(keys) == sorted(Range(keys))

\* data['contexts'][i] if len(data['contexts']) > i else ''
context_column(contexts, i) == IF Len(contexts) > i THEN contexts[i + 1] ELSE <<>>

\* lines 137-149: one row per record, in dict order
interaction_list(dict) ==
  [k \in DOMAIN dict |->
     [Source            |-> dict[k].key[1],
      Target            |-> dict[k].key[2],
      Frequency         |-> dict[k].count,
      Interaction_Types |-> dict[k].types,
      Chapters          |-> sorted(dict[k].chapters),
      Chapter_Count     |-> Cardinality(dict[k].chapters),
      Context_1         |-> context_column(dict[k].contexts, 0),
      Context_2         |-> context_column(dict[k].contexts, 1),
      Context_3         |-> context_column(dict[k].contexts, 2)]]

\* a table left in the order of the dict, unsorted
sort_values_unsorted(rows) == {rows}

\* the row orders sort_values('Frequency', ascending=False) may produce: the
\* default sort is not stable, rows of equal Frequency come out in any order
sort_values_descending(rows) ==
  {[i \in DOMAIN rows |-> rows[p[i]]] :
     p \in {q \in [DOMAIN rows -> DOMAIN rows] :
              /\ \A i, j \in DOMAIN rows : i # j => q[i] # q[j]
              /\ \A i, j \in DOMAIN rows :
                   i < j => rows[q[i]].Frequency >= rows[q[j]].Frequency}}

----------------------------------------------------------------------------
(* 3_network_analysis.py: build_network and the metrics *)

\* nx.DiGraph(): the nodes, the order they were added in, the weighted edges
empty_graph == [nodes |-> {}, order |-> <<>>, weight |-> <<>>]

\* the node order after G.add_edge(u, v): u, then v, each when it is new
add_nodes(order, u, v) ==
  LET with_u == IF u \in Range(order) THEN order ELSE Append(order, u)
  IN IF v \in Range(with_u) THEN with_u ELSE Append(with_u, v)

has_edge(g, u, v) == <<u, v>> \in DOMAIN g.weight

\* a builder whose add_edge replaces the weight of an edge it already has
add_row_overwriting(g, row) ==
  LET e == <<row.Source, row.Target>>
  IN [nodes  |-> g.nodes \cup {row.Source, row.Target},
      order  |-> add_nodes(g.order, row.Source, row.Target),
      weight |-> [x \in DOMAIN g.weight \cup {e} |->
                    IF x = e THEN row.Frequency ELSE g.weight[x]]]

\* a builder that records the edges without their Frequency (weight 1)
add_row_unweighted(g, row) ==
  LET e == <<row.Source, row.Target>>
  IN [nodes  |-> g.nodes \cup {row.Source, row.Target},
      order  |-> add_nodes(g.order, row.Source, row.Target),
      weight |-> [x \in DOMAIN g.weight \cup {e} |->
                    IF x = e THEN 1 ELSE g.weight[x]]]

\* lines 41-44 for one row
add_row(g, row) ==
  LET e == <<row.Source, row.Target>>
  IN IF has_edge(g, row.Source, row.Target)
     THEN [g EXCEPT !.weight = [@ EXCEPT ![e] = @ + row.Frequency]]
     ELSE [nodes  |-> g.nodes \cup {row.Source, row.Target},
           order  |-> add_nodes(g.order, row.Source, row.Target),
           weight |-> [x \in DOMAIN g.weight \cup {e} |->
                         IF x = e THEN row.Frequency ELSE g.weight[x]]]

RECURSIVE build_from(_, _)
build_from(g, rows) ==
  IF rows = <<>> THEN g ELSE build_from(add_row(g, Head(rows)), Tail(rows))

\* a builder that starts from a graph that already holds the focal character
build_network_around_focal(rows_in) ==
  build_from([nodes |-> {TARGET_CHARACTER}, order |-> <<TARGET_CHARACTER>>, weight |-> <<>>], rows_in)

\* lines 31-46
build_network(rows_in) == build_from(empty_graph, rows_in)

edges(g) == DOMAIN g.weight

successors(g, n) == {v \in g.nodes : <<n, v>> \in edges(g)}

predecessors(g, n) == {u \in g.nodes : <<u, n>> \in edges(g)}

out_degree(g, n) == Cardinality(successors(g, n))

in_degree(g, n) == Cardinality(predecessors(g, n))

RECURSIVE SumOver(_, _)
SumOver(f, s) ==
  IF s = {} THEN 0
  ELSE LET x == CHOOSE x \in s : TRUE IN f[x] + SumOver(f, s \ {x})

\* a weighted degree that counts the edges in both directions
weighted_degree_undirected(g, n) ==
  SumOver([v \in successors(g, n) |-> g.weight[<<n, v>>]], successors(g, n))
  + SumOver([u \in predecessors(g, n) |-> g.weight[<<u, n>>]], predecessors(g, n))

\* sum([G[node][neighbor]['weight'] for neighbor in G.neighbors(node)])
weighted_degree(g, n) ==
  SumOver([v \in successors(g, n) |-> g.weight[<<n, v>>]], successors(g, n))

\* nx.degree_centrality(G)[n] as the fraction <<numerator, denominator>>
degree_centrality(g, n) ==
  IF Cardinality(g.nodes) <= 1 THEN <<1, 1>>
  ELSE <<in_degree(g, n) + out_degree(g, n), Cardinality(g.nodes) - 1>>

\* the nodes within k steps along the edges from the nodes of the set
RECURSIVE within(_, _, _)
within(g, from, k) ==
  IF k = 0 THEN from
  ELSE within(g, from \cup UNION {successors(g, n) : n \in from}, k - 1)

\* the nodes that have a directed path from n, n included
reachable(g, n) == within(g, {n}, Cardinality(g.nodes))

\* a test that takes the edges in either direction
is_strongly_connected_either_direction(g) ==
  \A u, v \in g.nodes :
    v \in within([g EXCEPT !.weight = [e \in edges(g) \cup {<<x[2], x[1]>> : x \in edges(g)} |-> 1]],
                 {u}, Cardinality(g.nodes))

\* nx.is_strongly_connected(G), for a graph with a node
is_strongly_connected(g) ==
  \A u, v \in g.nodes : v \in reachable(g, u)

\* the number of edges of a shortest path from u to v; the number of nodes when
\* there is no path
shortest_path_length(g, u, v) ==
  IF v \notin reachable(g, u) THEN Cardinality(g.nodes)
  ELSE CHOOSE k \in 0..Cardinality(g.nodes) :
         /\ v \in within(g, {u}, k)
         /\ \A k2 \in 0..(k - 1) : v \notin within(g, {u}, k2)

\* nx.average_shortest_path_length(G) as the fraction <<numerator, denominator>>
average_shortest_path_length(g) ==
  IF Cardinality(g.nodes) = 1 THEN <<0, 1>>
  ELSE <<SumOver([e \in g.nodes \X g.nodes |-> shortest_path_length(g, e[1], e[2])],
                 g.nodes \X g.nodes),
         Cardinality(g.nodes) * (Cardinality(g.nodes) - 1)>>

\* lines 349-352: the length when the graph is strongly connected, else the
\* message 网络不连通，无法计算平均路径长度
average_path_length_report(g) ==
  IF is_strongly_connected(g)
  THEN [computed |-> TRUE, value |-> average_shortest_path_length(g)]
  ELSE [computed |-> FALSE]

\* line 348: sum(dict(G.degree()).values()) / G.number_of_nodes()
average_degree(g) ==
  <<SumOver([n \in g.nodes |-> in_degree(g, n) + out_degree(g, n)], g.nodes),
    Cardinality(g.nodes)>>

\* the place of a node in the order the nodes were added in
position(order, n) == CHOOSE i \in DOMAIN order : order[i] = n

\* nx.Graph(G) of a directed graph: the same nodes in the same order, one
\* undirected edge for every pair of nodes joined in either direction. The
\* edges are copied node by node in node order and each copy replaces the
\* weight the pair already has, so a pair joined in both directions keeps the
\* weight of the edge that leaves the node added later.
nx_Graph(g) ==
  [nodes  |-> g.nodes,
   order  |-> g.order,
   weight |-> [p \in {{e[1], e[2]} : e \in edges(g)} |->
                 LET copied == {e \in edges(g) : {e[1], e[2]} = p}
                     last == CHOOSE e \in copied :
                               \A e2 \in copied :
                                 position(g.order, e2[1]) <= position(g.order, e[1])
                 IN g.weight[last]]]

\* a conversion that makes G itself undirected: every edge gets its reverse
graph_after_to_undirected_in_place(g) ==
  [g EXCEPT !.weight = [e \in edges(g) \cup {<<x[2], x[1]>> : x \in edges(g)} |->
                          IF e \in edges(g) THEN g.weight[e] ELSE g.weight[<<e[2], e[1]>>]]]

\* G after nx.Graph(G): the new graph is built from a copy of G's adjacency,
\* and G keeps its nodes, its edges and their weights
graph_after_nx_Graph(g) == g

\* nx.density(G) of a directed graph as the fraction <<numerator, denominator>>
density(g) ==
  IF Cardinality(g.nodes) <= 1 \/ edges(g) = {} THEN <<0, 1>>
  ELSE <<Cardinality(edges(g)), Cardinality(g.nodes) * (Cardinality(g.nodes) - 1)>>

\* the library calls that calculate_centrality_metrics wraps in try/except
LibraryMetrics ==
  {"betweenness_centrality", "closeness_centrality", "eigenvector_centrality",
   "pagerank", "clustering_coefficient"}

\* the number a library call returned for a node; its value is left uninterpreted
nx_value(metric, n) == [nx |-> metric, node |-> n]

\* try: metrics[m] = nx.m(G).get(target_char, 0)  except: metrics[m] = 0
guarded_metric(g, metric, target_char, raised) ==
  IF metric \in raised \/ target_char \notin g.nodes THEN 0
  ELSE nx_value(metric, target_char)

\* calculate_centrality_metrics for target_char in G, where the library calls
\* of the set raised raise
calculate_centrality_metrics(g, target_char, raised) ==
  [degree_centrality |-> degree_centrality(g, target_char),
   in_degree         |-> in_degree(g, target_char),
   out_degree        |-> out_degree(g, target_char),
   total_degree      |-> in_degree(g, target_char) + out_degree(g, target_char),
   weighted_degree   |-> weighted_degree(g, target_char),
   betweenness_centrality |-> guarded_metric(g, "betweenness_centrality", target_char, raised),
   closeness_centrality   |-> guarded_metric(g, "closeness_centrality", target_char, raised),
   eigenvector_centrality |-> guarded_metric(g, "eigenvector_centrality", target_char, raised),
   pagerank               |-> guarded_metric(g, "pagerank", target_char, raised),
   clustering_coefficient |-> guarded_metric(g, "clustering_coefficient", target_char, raised)]

\* lines 114-121: the degrees of one node
node_degrees(g, n) ==
  [degree          |-> in_degree(g, n) + out_degree(g, n),
   in_degree       |-> in_degree(g, n),
   out_degree      |-> out_degree(g, n),
   weighted_degree |-> weighted_degree(g, n)]

\* lines 125-132: the three centralities of one node
node_centralities(g, n) ==
  [degree_centrality      |-> degree_centrality(g, n),
   betweenness_centrality |-> nx_value("betweenness_centrality", n),
   closeness_centrality   |-> nx_value("closeness_centrality", n)]

\* the library calls of the one try block of get_all_centrality_metrics
GlobalCentralityCalls == {"betweenness_centrality", "closeness_centrality"}

\* get_all_centrality_metrics: the three centralities are added to the rows
\* only when none of the calls of the try block (lines 124-134) raised
get_all_centrality_metrics(g, raised) ==
  [n \in g.nodes |->
     IF GlobalCentralityCalls \cap raised = {}
     THEN node_degrees(g, n) @@ node_centralities(g, n)
     ELSE node_degrees(g, n)]

----------------------------------------------------------------------------
(* 4_advanced_network_analysis.py: calculate_network_properties *)

\* the degree of every node, as G.degree() counts it
degree_sequence(g) == {in_degree(g, n) + out_degree(g, n) : n \in g.nodes}

\* nx.reciprocity(G) as the fraction <<numerator, denominator>>, for a graph
\* with an edge: the edges that have their reverse, over all edges
reciprocity(g) ==
  <<2 * (Cardinality(edges(g)) - Cardinality(DOMAIN nx_Graph(g).weight)),
    Cardinality(edges(g))>>

\* nx.is_weakly_connected(G), for a graph with a node
is_weakly_connected(g) ==
  \A u, v \in g.nodes :
    v \in within(graph_after_to_undirected_in_place(g), {u}, Cardinality(g.nodes))

\* nx.number_strongly_connected_components(G)
number_strongly_connected_components(g) ==
  Cardinality({{v \in reachable(g, u) : u \in reachable(g, v)} : u \in g.nodes})

\* lines 139-177 for a graph with a node; nx.reciprocity raises on a graph
\* without edges, transitivity_raised tells whether the guarded
\* nx.transitivity raised
calculate_network_properties(g, transitivity_raised) ==
  [num_nodes   |-> Cardinality(g.nodes),
   num_edges   |-> Cardinality(edges(g)),
   density     |-> density(g),
   avg_degree  |-> average_degree(g),
   max_degree  |-> CHOOSE d \in degree_sequence(g) : \A d2 \in degree_sequence(g) : d2 <= d,
   min_degree  |-> CHOOSE d \in degree_sequence(g) : \A d2 \in degree_sequence(g) : d <= d2,
   reciprocity |-> IF edges(g) = {} THEN 0 ELSE reciprocity(g),
   transitivity |-> IF transitivity_raised THEN 0 ELSE [nx |-> "transitivity"],
   is_strongly_connected |-> is_strongly_connected(g),
   is_weakly_connected   |-> is_weakly_connected(g),
   num_strongly_connected_components |->
     IF is_strongly_connected(g) THEN 1 ELSE number_strongly_connected_components(g)]

----------------------------------------------------------------------------
(* Inputs *)

MaxChapter == 2

MaxSentences == 2

MaxTextLen == 4

MaxRows == 2

MaxFrequency == 2

MaxEvents == 3

\* all sequences over S of length at most n
SeqsUpTo(S, n) == UNION {[1..k -> S] : k \in 0..n}

\* 寶釵 (an alias of 薛寶釵), 寶二爺 (holds the aliases 寶二爺 and 二爺 of 賈寶玉),
\* 黛玉 (an alias of 林黛玉), 道 (speech-act keyword), 來 (action keyword), 。 and ？
Phrases ==
  { <<23542, 37365>>, <<23542, 20108, 29242>>, <<40667, 29577>>,
    <<36947>>, <<20358>>, <<12290>>, <<65311>> }

\* 薛寶釵笑道：「你來做什麼？」寶玉答道
ScenarioText ==
  <<34203, 23542, 37365, 31505, 36947, 65306, 12300, 20320, 20358, 20570,
    20160, 40636, 65311, 12301, 23542, 29577, 31572, 36947>>

\* the same without the ？: 薛寶釵笑道：「你來做什麼」寶玉答道
ScenarioSentence ==
  <<34203, 23542, 37365, 31505, 36947, 65306, 12300, 20320, 20358, 20570,
    20160, 40636, 12301, 23542, 29577, 31572, 36947>>

\* four sentences that each mention the focal character and 林黛玉:
\* 寶釵黛玉。寶釵黛玉道。寶釵黛玉來。寶釵寶二爺黛玉
WindowText ==
  <<23542, 37365, 40667, 29577, 12290,
    23542, 37365, 40667, 29577, 36947, 12290,
    23542, 37365, 40667, 29577, 20358, 12290,
    23542, 37365, 23542, 20108, 29242, 40667, 29577>>

\* 薛姨媽的女兒: an alias of the focal character that holds 薛姨媽 and 姨媽
DaughterAliasText == <<34203, 23016, 23229, 30340, 22899, 20818>>

\* 寶釵老太太: 老太太 is an alias of 賈母 and holds 太太, an alias of 王夫人
NestedAliasText == <<23542, 37365, 32769, 22826, 22826>>

\* the chapter texts of the extraction runs
ExtractTexts ==
  {Concat(ps) : ps \in SeqsUpTo(Phrases, MaxTextLen)}
    \cup {ScenarioText, ScenarioSentence, WindowText, DaughterAliasText,
          NestedAliasText}

\* 寶釵道黛玉 and 寶釵來寶玉黛玉寶玉
SentencePool ==
  { <<23542, 37365, 36947, 40667, 29577>>,
    <<23542, 37365, 20358, 23542, 29577, 40667, 29577, 23542, 29577>> }

\* the chapter texts of the pipeline runs: up to MaxSentences sentences ended by 。
PipelineTexts == {Join(ContextSeparator, ss) : ss \in SeqsUpTo(SentencePool, MaxSentences)}

\* the focal character and two others: 賈寶玉, 林黛玉
NodeIds == {TARGET_CHARACTER, <<36040, 23542, 29577>>, <<26519, 40667, 29577>>}

\* rows of an interactions CSV: the columns build_network reads
CsvRows == [Source : NodeIds, Target : NodeIds, Frequency : 1..MaxFrequency]

\* the rows with frequencies 5 and 7 for one key
ScenarioRows ==
  << [Source |-> TARGET_CHARACTER, Target |-> <<36040, 23542, 29577>>, Frequency |-> 5],
     [Source |-> TARGET_CHARACTER, Target |-> <<36040, 23542, 29577>>, Frequency |-> 7] >>

----------------------------------------------------------------------------
(* The batch run *)

NoMetrics == [computed |-> FALSE]

\* before section 5 of main
NoReport == [printed |-> FALSE]

\* before the first nx.Graph(G)
NoProjection == [made |-> FALSE]

\* the outcomes of the guarded library calls on one graph: all return, or one raises
RaiseChoices == {{}} \cup {{metric} : metric \in LibraryMetrics}

\* the state main() of 2_interaction_extraction.py starts its loops in, for a corpus
StartWith(corpus) ==
  /\ selected_chapters = sorted(DOMAIN corpus)
  /\ files = corpus
  /\ loaded = Cardinality(DOMAIN corpus)
  /\ chapters = corpus
  /\ chapter_keys = sorted(DOMAIN corpus)
  /\ todo = extraction_order(sorted(DOMAIN corpus))
  /\ pc = IF DOMAIN corpus = {} THEN "aggregate" ELSE "extract"
  /\ all_interactions = <<>>
  /\ folded = 0
  /\ interaction_dict = <<>>
  /\ df_interactions = <<>>
  /\ G = empty_graph
  /\ target_metrics = NoMetrics
  /\ all_metrics = <<>>
  /\ raises = {}
  /\ report = NoReport
  /\ G_undirected = NoProjection
  /\ network_props = NoMetrics
\* load_data() has returned: every selected chapter had its cleaned file
Init ==
  \E present \in SUBSET (1..MaxChapter) :
    \E corpus \in [present -> PipelineTexts] : StartWith(corpus)

\* one iteration of the loop of lines 105-115
ExtractChapter ==
  /\ pc = "extract"
  /\ todo # <<>>
  /\ LET chapter_num == Head(todo)
         target_variants == dict_get(build_character_dictionary, TARGET_CHARACTER)
     IN all_interactions' = all_interactions \o
          identify_interactions_advanced(chapters[chapter_num], target_variants,
                                         build_character_dictionary, chapter_num)
  /\ todo' = Tail(todo)
  /\ pc' = IF Tail(todo) = <<>> THEN "aggregate" ELSE "extract"
  /\ UNCHANGED <<selected_chapters, files, loaded, chapters, chapter_keys, folded,
                 interaction_dict, df_interactions, G, target_metrics, all_metrics,
                 raises, report, G_undirected, network_props>>

\* one iteration of the loop of lines 128-134
FoldInteraction ==
  /\ pc = "aggregate"
  /\ folded < Len(all_interactions)
  /\ interaction_dict' = fold_interaction(interaction_dict, all_interactions[folded + 1])
  /\ folded' = folded + 1
  /\ UNCHANGED <<pc, selected_chapters, files, loaded, chapters, chapter_keys, todo,
                 all_interactions, df_interactions, G, target_metrics, all_metrics,
                 raises, report, G_undirected, network_props>>

\* lines 137-156: the table, sorted and saved; a DataFrame of no rows has no
\* 'Frequency' column and sort_values raises KeyError
BuildTable ==
  /\ pc = "aggregate"
  /\ folded = Len(all_interactions)
  /\ IF interaction_dict = <<>>
     THEN /\ pc' = "KeyError"
          /\ UNCHANGED df_interactions
     ELSE /\ pc' = "graph"
          /\ df_interactions' \in sort_values_descending(interaction_list(interaction_dict))
  /\ UNCHANGED <<selected_chapters, files, loaded, chapters, chapter_keys, todo,
                 all_interactions, folded, interaction_dict, G, target_metrics,
                 all_metrics, raises, report, G_undirected, network_props>>

\* 3_network_analysis.py main, lines 290-295
BuildNetwork ==
  /\ pc = "graph"
  /\ G' = build_network(df_interactions)
  /\ pc' = "metrics"
  /\ UNCHANGED <<selected_chapters, files, loaded, chapters, chapter_keys, todo,
                 all_interactions, folded, interaction_dict, df_interactions,
                 target_metrics, all_metrics, raises, report, G_undirected, network_props>>

\* main line 307: G.neighbors(target_char) of line 70 raises when target_char is
\* not a node; otherwise each guarded library call returns or raises
CalculateCentralityMetrics ==
  /\ pc = "metrics"
  /\ IF TARGET_CHARACTER \in G.nodes
     THEN \E raised \in RaiseChoices :
            /\ raises' = raised
            /\ target_metrics' = [computed |-> TRUE] @@
                 calculate_centrality_metrics(G, TARGET_CHARACTER, raised)
            /\ G_undirected' = [made |-> TRUE, graph |-> nx_Graph(G)]
            /\ G' = graph_after_nx_Graph(G)
            /\ pc' = "all_metrics"
     ELSE /\ pc' = "NetworkXError"
          /\ UNCHANGED <<G, target_metrics, raises, G_undirected>>
  /\ UNCHANGED <<selected_chapters, files, loaded, chapters, chapter_keys, todo,
                 all_interactions, folded, interaction_dict, df_interactions,
                 all_metrics, report, network_props>>

\* main line 322: the same library calls on the same graph
GetAllCentralityMetrics ==
  /\ pc = "all_metrics"
  /\ all_metrics' = get_all_centrality_metrics(G, raises)
  /\ pc' = "statistics"
  /\ UNCHANGED <<selected_chapters, files, loaded, chapters, chapter_keys, todo,
                 all_interactions, folded, interaction_dict, df_interactions, G,
                 target_metrics, raises, report, G_undirected, network_props>>

\* main lines 346-359: the division of line 348 fails on a graph without
\* nodes and G.neighbors of line 355 raises when the focal character is not a node
NetworkStatistics ==
  /\ pc = "statistics"
  /\ IF G.nodes = {}
     THEN /\ pc' = "ZeroDivisionError"
          /\ UNCHANGED report
     ELSE IF TARGET_CHARACTER \notin G.nodes
     THEN /\ pc' = "NetworkXError"
          /\ UNCHANGED report
     ELSE /\ pc' = "done"
          /\ report' = [printed             |-> TRUE,
                        average_degree      |-> average_degree(G),
                        average_path_length |-> average_path_length_report(G),
                        neighbors           |-> {<<v, G.weight[<<TARGET_CHARACTER, v>>]>> :
                                                   v \in successors(G, TARGET_CHARACTER)}]
  /\ UNCHANGED <<selected_chapters, files, loaded, chapters, chapter_keys, todo,
                 all_interactions, folded, interaction_dict, df_interactions, G,
                 target_metrics, all_metrics, raises, G_undirected, network_props>>

\* 4_advanced_network_analysis.py main, line 298, once 3_network_analysis.py
\* has ended: load_data builds the graph from the same table with the loop of
\* build_network; max() of line 151 raises ValueError on a graph without nodes
CalculateNetworkProperties ==
  /\ pc \in {"done", "NetworkXError", "ZeroDivisionError"}
  /\ IF G.nodes = {}
     THEN /\ pc' = "ValueError"
          /\ UNCHANGED <<G, network_props>>
     ELSE \E transitivity_raised \in BOOLEAN :
            /\ network_props' = [computed |-> TRUE] @@
                 calculate_network_properties(G, transitivity_raised)
            /\ G' = graph_after_nx_Graph(G)
            /\ pc' = "properties"
  /\ UNCHANGED <<selected_chapters, files, loaded, chapters, chapter_keys, todo,
                 all_interactions, folded, interaction_dict, df_interactions,
                 target_metrics, all_metrics, raises, report, G_undirected>>

Next ==
  \/ ExtractChapter
  \/ FoldInteraction
  \/ BuildTable
  \/ BuildNetwork
  \/ CalculateCentralityMetrics
  \/ GetAllCentralityMetrics
  \/ NetworkStatistics
  \/ CalculateNetworkProperties

Spec == Init /\ [][Next]_vars

\* identify_interactions_advanced applied to one chapter text
InitExtract ==
  \E text \in ExtractTexts : StartWith(1 :> text)

NextExtract == ExtractChapter

SpecExtract == InitExtract /\ [][NextExtract]_vars

\* build_network and the metrics applied to the rows of any interactions CSV
InitGraph ==
  \E rows \in SeqsUpTo(CsvRows, MaxRows) \cup {ScenarioRows} :
    /\ df_interactions = rows
    /\ pc = "graph"
    /\ selected_chapters = <<>>
    /\ files = <<>>
    /\ loaded = 0
    /\ chapters = <<>>
    /\ chapter_keys = <<>>
    /\ todo = <<>>
    /\ all_interactions = <<>>
    /\ folded = 0
    /\ interaction_dict = <<>>
    /\ G = empty_graph
    /\ target_metrics = NoMetrics
    /\ all_metrics = <<>>
    /\ raises = {}
    /\ report = NoReport
    /\ G_undirected = NoProjection
    /\ network_props = NoMetrics
NextGraph ==
  \/ BuildNetwork
  \/ CalculateCentralityMetrics
  \/ GetAllCentralityMetrics
  \/ NetworkStatistics
  \/ CalculateNetworkProperties

SpecGraph == InitGraph /\ [][NextGraph]_vars

\* the lists selected_chapters.json can hold: chapter numbers, each once, in any order
SelectedLists ==
  {s \in SeqsUpTo(1..MaxChapter, MaxChapter) :
     \A i, j \in DOMAIN s : i # j => s[i] # s[j]}

\* the cleaned chapter files of the loading runs: one sentence each
LoadTexts == SentencePool

\* 2_interaction_extraction.py from the first line of load_data
InitLoad ==
  \E selected \in SelectedLists :
    \E present \in SUBSET (1..MaxChapter) :
      \E existing \in [present -> LoadTexts] :
        /\ selected_chapters = selected
        /\ files = existing
        /\ loaded = 0
        /\ pc = "load"
        /\ chapters = <<>>
        /\ chapter_keys = <<>>
        /\ todo = <<>>
        /\ all_interactions = <<>>
        /\ folded = 0
        /\ interaction_dict = <<>>
        /\ df_interactions = <<>>
        /\ G = empty_graph
        /\ target_metrics = NoMetrics
        /\ all_metrics = <<>>
        /\ raises = {}
        /\ report = NoReport
        /\ G_undirected = NoProjection
        /\ network_props = NoMetrics
\* one iteration of the loop of load_data, lines 32-37
LoadChapter ==
  /\ pc = "load"
  /\ loaded < Len(selected_chapters)
  /\ LET chapter_num == selected_chapters[loaded + 1]
     IN IF chapter_num \in DOMAIN files
        THEN /\ chapters' = (chapter_num :> files[chapter_num]) @@ chapters
             /\ chapter_keys' = IF chapter_num \in DOMAIN chapters THEN chapter_keys
                                ELSE Append(chapter_keys, chapter_num)
        ELSE UNCHANGED <<chapters, chapter_keys>>
  /\ loaded' = loaded + 1
  /\ UNCHANGED <<pc, selected_chapters, files, todo, all_interactions, folded,
                 interaction_dict, df_interactions, G, target_metrics, all_metrics,
                 raises, report, G_undirected, network_props>>

\* load_data returns; main, lines 90-105, sets up the extraction loop
StartExtraction ==
  /\ pc = "load"
  /\ loaded = Len(selected_chapters)
  /\ todo' = extraction_order(chapter_keys)
  /\ pc' = IF chapter_keys = <<>> THEN "aggregate" ELSE "extract"
  /\ UNCHANGED <<selected_chapters, files, loaded, chapters, chapter_keys,
                 all_interactions, folded, interaction_dict, df_interactions, G,
                 target_metrics, all_metrics, raises, report, G_undirected, network_props>>

NextLoad ==
  \/ LoadChapter
  \/ StartExtraction
  \/ ExtractChapter
  \/ FoldInteraction
  \/ BuildTable
  \/ BuildNetwork
  \/ CalculateCentralityMetrics
  \/ GetAllCentralityMetrics
  \/ NetworkStatistics
  \/ CalculateNetworkProperties

SpecLoad == InitLoad /\ [][NextLoad]_vars

\* the events the extractor emits for the pool sentences, in every chapter
EventPool ==
  UNION {Range(identify_interactions_advanced(text,
                 dict_get(build_character_dictionary, TARGET_CHARACTER),
                 build_character_dictionary, chapter_num)) :
           text \in SentencePool, chapter_num \in 1..MaxChapter}

\* the aggregation loop of main applied to any event stream
InitFold ==
  \E events \in SeqsUpTo(EventPool, MaxEvents) :
    /\ all_interactions = events
    /\ pc = "aggregate"
    /\ selected_chapters = <<>>
    /\ files = <<>>
    /\ loaded = 0
    /\ chapters = <<>>
    /\ chapter_keys = <<>>
    /\ todo = <<>>
    /\ folded = 0
    /\ interaction_dict = <<>>
    /\ df_interactions = <<>>
    /\ G = empty_graph
    /\ target_metrics = NoMetrics
    /\ all_metrics = <<>>
    /\ raises = {}
    /\ report = NoReport
    /\ G_undirected = NoProjection
    /\ network_props = NoMetrics
NextFold == FoldInteraction

SpecFold == InitFold /\ [][NextFold]_vars

\* two orders the nodes of a set may have been added in: the focal character
\* first, and the reverse of that
NodeOrders(ns) ==
  LET listed == CHOOSE o \in [1..Cardinality(ns) -> ns] :
                  /\ \A i, j \in DOMAIN o : i # j => o[i] # o[j]
                  /\ TARGET_CHARACTER \in ns => o[1] = TARGET_CHARACTER
  IN {listed, [i \in DOMAIN listed |-> listed[Len(listed) + 1 - i]]}

\* the directed graphs on a set of nodes: any edges between distinct nodes,
\* with weights up to MaxFrequency

GraphsOver(ns) ==
  {[nodes |-> ns, order |-> o, weight |-> w] :
     o \in NodeOrders(ns),
     w \in UNION {[E -> 1..MaxFrequency] :
                    E \in SUBSET {e \in ns \X ns : e[1] # e[2]}}}

\* the graphs handed to the metrics: also the empty graph, graphs without the
\* focal character and graphs with nodes that have no edge
MetricGraphs == UNION {GraphsOver(ns) : ns \in SUBSET NodeIds}

\* calculate_centrality_metrics and get_all_centrality_metrics applied to any graph
InitMetrics ==
  \E g \in MetricGraphs :
    /\ G = g
    /\ pc = "metrics"
    /\ selected_chapters = <<>>
    /\ files = <<>>
    /\ loaded = 0
    /\ chapters = <<>>
    /\ chapter_keys = <<>>
    /\ todo = <<>>
    /\ all_interactions = <<>>
    /\ folded = 0
    /\ interaction_dict = <<>>
    /\ df_interactions = <<>>
    /\ target_metrics = NoMetrics
    /\ all_metrics = <<>>
    /\ raises = {}
    /\ report = NoReport
    /\ G_undirected = NoProjection
    /\ network_props = NoMetrics
NextMetrics ==
  \/ CalculateCentralityMetrics
  \/ GetAllCentralityMetrics
  \/ NetworkStatistics
  \/ CalculateNetworkProperties

SpecMetrics == InitMetrics /\ [][NextMetrics]_vars

----------------------------------------------------------------------------
(* Properties of the aggregation (specification Spec) *)

\* the (source, target) key of a raw event
KeyOf(e) == <<e.source, e.target>>

\* the events the aggregation loop has consumed so far
FoldedEvents == SubSeq(all_interactions, 1, folded)

\* the consumed events of one key, in the order they were folded
EventsOfKey(key) == SelectSeq(FoldedEvents, LAMBDA e : KeyOf(e) = key)

\* C1: after any prefix of the event stream has been folded, the aggregated
\* records are exactly one per key observed in the prefix, and each record's
\* frequency is the number of folded events with that key.
C1_FrequencyIsEventCount ==
  LET observed == {KeyOf(FoldedEvents[i]) : i \in 1..folded}
  IN /\ {interaction_dict[k].key : k \in DOMAIN interaction_dict} = observed
     /\ \A k1, k2 \in DOMAIN interaction_dict :
          interaction_dict[k1].key = interaction_dict[k2].key => k1 = k2
     /\ \A k \in DOMAIN interaction_dict :
          interaction_dict[k].count =
            Cardinality({i \in 1..folded :
                           KeyOf(FoldedEvents[i]) = interaction_dict[k].key})

\* two keys have been observed and one of them more than once
C1_Witness ==
  /\ Len(interaction_dict) >= 2
  /\ \E k \in DOMAIN interaction_dict : interaction_dict[k].count >= 2
  /\ folded >= 3

\* C2: for every key the context list has length min(3, frequency) and holds the
\* contexts of the first three folded events of the key, in fold order; events
\* after the third leave it as it is.
C2_ContextsAreFirstThree ==
  \A k \in DOMAIN interaction_dict :
    LET evs == EventsOfKey(interaction_dict[k].key)
        rec == interaction_dict[k]
    IN /\ Len(rec.contexts) = Min(3, rec.count)
       /\ \A i \in 1..Len(rec.contexts) : rec.contexts[i] = evs[i].context

\* a key with a fourth event folded, whose kept contexts are not all the same
C2_Witness ==
  \E k \in DOMAIN interaction_dict :
    /\ interaction_dict[k].count >= 4
    /\ interaction_dict[k].contexts[1] # interaction_dict[k].contexts[3]

----------------------------------------------------------------------------
(* Properties of the graph builder and the metrics *)

\* build_network has returned
GraphBuilt ==
  pc \in {"metrics", "all_metrics", "statistics", "done", "NetworkXError",
          "properties", "ValueError"}

\* the sum of the Frequency column over the rows that satisfy P
FrequencySum(rows, P(_)) ==
  LET F[i \in 0..Len(rows)] ==
        IF i = 0 THEN 0
        ELSE F[i - 1] + (IF P(rows[i]) THEN rows[i].Frequency ELSE 0)
  IN F[Len(rows)]

\* the (source, target, weight) triples read back out of the graph
GraphTriples == {<<e[1], e[2], G.weight[e]>> : e \in edges(G)}

\* the (Source, Target, Frequency) triples of the table
TableTriples ==
  {<<df_interactions[i].Source, df_interactions[i].Target, df_interactions[i].Frequency>> :
     i \in DOMAIN df_interactions}

\* C3: whatever rows build_network is given, every key of the input has one
\* edge whose weight is the sum of the frequencies of all rows of that key, and
\* there is no other edge; the rows with 5 and 7 give the single weight 12.
C3_DuplicateKeysSummed ==
  GraphBuilt =>
    /\ edges(G) = {<<df_interactions[i].Source, df_interactions[i].Target>> :
                     i \in DOMAIN df_interactions}
    /\ \A e \in edges(G) :
         G.weight[e] = FrequencySum(df_interactions,
                                    LAMBDA r : r.Source = e[1] /\ r.Target = e[2])
    /\ df_interactions = ScenarioRows =>
         /\ Cardinality(edges(G)) = 1
         /\ \A e \in edges(G) : G.weight[e] = 12

\* the graph of the two rows with frequencies 5 and 7 for one key has been built
C3_Witness ==
  /\ GraphBuilt
  /\ df_interactions = ScenarioRows
  /\ G.weight[<<ScenarioRows[1].Source, ScenarioRows[1].Target>>] = 12

\* C4: the graph built from the aggregator's own table has, for every row, the
\* edge Source -> Target with weight Frequency, and the triples read back
\* from the graph are exactly the triples of the table, which are the
\* aggregated (key, count) records.
C4_RoundTrip ==
  GraphBuilt =>
    /\ \A i \in DOMAIN df_interactions :
         /\ has_edge(G, df_interactions[i].Source, df_interactions[i].Target)
         /\ G.weight[<<df_interactions[i].Source, df_interactions[i].Target>>] =
              df_interactions[i].Frequency
    /\ GraphTriples = TableTriples
    /\ GraphTriples = {<<interaction_dict[k].key[1], interaction_dict[k].key[2],
                         interaction_dict[k].count>> : k \in DOMAIN interaction_dict}

\* a graph built from a table of two rows of different frequency, one above 1
C4_Witness ==
  /\ GraphBuilt
  /\ Len(df_interactions) = 2
  /\ df_interactions[1].Frequency > df_interactions[2].Frequency
  /\ df_interactions[2].Frequency > 1

\* C5: the weighted degree reported for the focal character, in its own record
\* and in the per-node table, is the sum of Frequency over the rows whose
\* Source is the focal character.
C5_FocalWeightedDegree ==
  LET outgoing == FrequencySum(df_interactions, LAMBDA r : r.Source = TARGET_CHARACTER)
  IN /\ target_metrics.computed => target_metrics.weighted_degree = outgoing
     /\ pc = "done" => all_metrics[TARGET_CHARACTER].weighted_degree = outgoing

\* the metrics of a graph in which the focal character has edges in both
\* directions and a repeated key have been reported
C5_Witness ==
  /\ pc = "done"
  /\ target_metrics.weighted_degree >= 3
  /\ in_degree(G, TARGET_CHARACTER) >= 1
  /\ Len(df_interactions) > Cardinality(edges(G))

----------------------------------------------------------------------------
(* Properties of the extractor (specification SpecExtract: one chapter, number 1) *)

\* identify_interactions_advanced has returned for the chapter
Extracted == pc = "aggregate" /\ DOMAIN chapters = {1}

\* the segmented sequence of the chapter
ChapterSentences == re_split(chapters[1])

\* the canonical ids of the alias table
CharacterNames ==
  {build_character_dictionary[k].name : k \in DOMAIN build_character_dictionary}

\* the aliases of a canonical id
AliasesOf(name) ==
  UNION {Range(build_character_dictionary[k].variants) :
           k \in {j \in DOMAIN build_character_dictionary :
                    build_character_dictionary[j].name = name}}

\* some alias of the character occurs in the span
Mentions(span, name) == \E alias \in AliasesOf(name) : Contains(alias, span)

\* the other cataloged characters mentioned in the span
OthersMentioned(span) ==
  {name \in CharacterNames \ {TARGET_CHARACTER} : Mentions(span, name)}

\* the positions of the raw event log whose event came from this sentence text
EventsOfSentence(t) ==
  {i \in DOMAIN all_interactions : all_interactions[i].sentence = t}

\* the sentence holds one of the given one-character keywords
HasKeyword(sentence, words) ==
  \E j \in DOMAIN sentence : sentence[j] \in Range(words)

\* C6: every emitted event has exactly one of the three types: Dialogue when
\* its sentence holds a speech-act keyword (whether or not it also holds an
\* action keyword), otherwise Action when it holds an action keyword,
\* otherwise CoOccurrence.
C6_TypePriority ==
  \A i \in DOMAIN all_interactions :
    LET e == all_interactions[i]
        speech == HasKeyword(e.sentence, DialogueWords)
        action == HasKeyword(e.sentence, ActionWords)
    IN /\ e.type \in {"Dialogue", "Action", "CoOccurrence"}
       /\ speech => e.type = "Dialogue"
       /\ (~speech /\ action) => e.type = "Action"
       /\ (~speech /\ ~action) => e.type = "CoOccurrence"

\* an event of a sentence holding both 道 and 來 has been emitted as Dialogue
C6_Witness ==
  \E i \in DOMAIN all_interactions :
    /\ HasKeyword(all_interactions[i].sentence, <<36947>>)
    /\ HasKeyword(all_interactions[i].sentence, <<20358>>)
    /\ all_interactions[i].type = "Dialogue"

\* the sentences lo..hi (0-based, inclusive) joined with 。
JoinedRange(sentences, lo, hi) ==
  LET J[k \in lo..hi] ==
        IF k = lo THEN sentences[lo + 1]
        ELSE J[k - 1] \o <<12290>> \o sentences[k + 1]
  IN J[hi]

\* the window the claim gives for the sentence at 0-based index i
ExpectedContext(sentences, i) ==
  JoinedRange(sentences,
              IF i = 0 THEN 0 ELSE i - 1,
              IF i = Len(sentences) - 1 THEN i ELSE i + 1)

\* C7: the context of an event emitted from the sentence at index i is the
\* sentences i-1, i, i+1, without i-1 at the first sentence and without i+1 at
\* the last, joined with 。; every sentence that yields events yields them with
\* that context.
C7_ContextWindow ==
  Extracted =>
    LET s == ChapterSentences IN
    /\ \A k \in DOMAIN all_interactions :
         \E i \in 0..(Len(s) - 1) :
           /\ s[i + 1] = all_interactions[k].sentence
           /\ all_interactions[k].context = ExpectedContext(s, i)
    /\ \A i \in 0..(Len(s) - 1) :
         (Mentions(s[i + 1], TARGET_CHARACTER) /\ OthersMentioned(s[i + 1]) # {}) =>
           \E k \in DOMAIN all_interactions :
             /\ all_interactions[k].sentence = s[i + 1]
             /\ all_interactions[k].context = ExpectedContext(s, i)

\* the four-sentence chapter has been extracted: events from the first, the two
\* middle and the last sentence, with four different windows
C7_Witness ==
  /\ Extracted
  /\ chapters[1] = WindowText
  /\ Len(all_interactions) = 5
  /\ Cardinality({all_interactions[k].context : k \in DOMAIN all_interactions}) = 4

\* C8: a sentence without a focal alias yields no event; any other sentence
\* yields as many events as there are other cataloged characters with an alias
\* in it, however often and under however many aliases each is mentioned.
C8_EventsPerSentence ==
  Extracted =>
    LET s == ChapterSentences IN
    \A t \in Range(s) :
      Cardinality(EventsOfSentence(t)) =
        Cardinality({j \in DOMAIN s : s[j] = t}) *
          (IF Mentions(t, TARGET_CHARACTER) THEN Cardinality(OthersMentioned(t)) ELSE 0)

\* 寶釵寶二爺寶二爺: one character mentioned twice, each time under two of its
\* aliases (寶二爺 and 二爺), has given one event
C8_Witness ==
  /\ Extracted
  /\ chapters[1] = <<23542, 37365, 23542, 20108, 29242, 23542, 20108, 29242>>
  /\ Len(all_interactions) = 1

\* C9: a sentence that mentions the focal character and exactly two other
\* characters yields exactly two events, which differ in target and agree in
\* context, sentence, chapter, source and type.
C9_TwoOthersTwoEvents ==
  Extracted =>
    LET s == ChapterSentences IN
    \A j \in DOMAIN s :
      ( /\ Mentions(s[j], TARGET_CHARACTER)
        /\ Cardinality(OthersMentioned(s[j])) = 2
        /\ \A j2 \in DOMAIN s : s[j2] = s[j] => j2 = j ) =>
          /\ Cardinality(EventsOfSentence(s[j])) = 2
          /\ {all_interactions[k].target : k \in EventsOfSentence(s[j])} =
               OthersMentioned(s[j])
          /\ \A k1, k2 \in EventsOfSentence(s[j]) :
               /\ all_interactions[k1].context = all_interactions[k2].context
               /\ all_interactions[k1].sentence = all_interactions[k2].sentence
               /\ all_interactions[k1].chapter = all_interactions[k2].chapter
               /\ all_interactions[k1].source = all_interactions[k2].source
               /\ all_interactions[k1].type = all_interactions[k2].type

\* two events of one sentence with different targets, in a chapter of more than
\* one sentence
C9_Witness ==
  /\ Extracted
  /\ \E k1, k2 \in DOMAIN all_interactions :
       /\ all_interactions[k1].sentence = all_interactions[k2].sentence
       /\ all_interactions[k1].target # all_interactions[k2].target
       /\ all_interactions[k1].context # all_interactions[k1].sentence

\* C10 as stated: the text 薛寶釵笑道：「你來做什麼？」寶玉答道 gives exactly one
\* event, from the focal character to 賈寶玉, of type Dialogue.
C10_ScenarioOneDialogueEvent ==
  (Extracted /\ chapters[1] = ScenarioText) =>
    /\ Len(all_interactions) = 1
    /\ all_interactions[1].source = TARGET_CHARACTER
    /\ all_interactions[1].target = <<36040, 23542, 29577>>
    /\ all_interactions[1].type = "Dialogue"

\* C10 amended: the text is split at its ？ into 薛寶釵笑道：「你來做什麼 and
\* 」寶玉答道, no sentence mentions both characters and no event is produced;
\* the same text without the ？ is one sentence and gives exactly one event,
\* from the focal character to 賈寶玉, of type Dialogue.
C10_ScenarioSplitAtQuestionMark ==
  /\ (Extracted /\ chapters[1] = ScenarioText) =>
       /\ Len(ChapterSentences) = 2
       /\ all_interactions = <<>>
  /\ (Extracted /\ chapters[1] = ScenarioSentence) =>
       /\ Len(all_interactions) = 1
       /\ all_interactions[1].source = TARGET_CHARACTER
       /\ all_interactions[1].target = <<36040, 23542, 29577>>
       /\ all_interactions[1].type = "Dialogue"

\* the scenario text has been extracted
C10_Witness ==
  /\ Extracted
  /\ chapters[1] = ScenarioText
  /\ ~Mentions(ChapterSentences[1], <<36040, 23542, 29577>>)
  /\ ~Mentions(ChapterSentences[2], TARGET_CHARACTER)

----------------------------------------------------------------------------
(* Properties of the segmenter (specification SpecExtract) *)

\* C11 as stated: every element of the segmented sequence of the chapter is a
\* non-empty string, also when the text has consecutive delimiters, a leading
\* delimiter or a trailing delimiter.
C11_SentencesNonEmpty ==
  Extracted => \A j \in DOMAIN ChapterSentences : ChapterSentences[j] # <<>>

----------------------------------------------------------------------------
(* Properties of the graph builder's input checks (specification SpecGraph) *)

\* some row of the table has its Source equal to its Target
HasSelfLoopRow ==
  \E i \in DOMAIN df_interactions : df_interactions[i].Source = df_interactions[i].Target

\* C12 as stated: when a row with Source equal to Target is among the rows,
\* build_network does not return a graph (it ends in an error) and no graph
\* with an edge from a node to itself exists.
C12_SelfLoopRejected ==
  HasSelfLoopRow =>
    /\ ~GraphBuilt
    /\ \A n \in G.nodes : ~has_edge(G, n, n)

----------------------------------------------------------------------------
(* Properties of the metrics on any graph (specification SpecMetrics) *)

\* the fields of the record calculate_centrality_metrics returns
TargetMetricFields ==
  {"degree_centrality", "in_degree", "out_degree", "total_degree", "weighted_degree"}
    \cup LibraryMetrics

\* C13 as stated: for every graph, also one without the focal character and
\* the empty graph, calculate_centrality_metrics does not raise, and the record
\* it returns is complete, with 0 for every metric whose library call raised.
C13_MetricsNeverRaise ==
  /\ pc # "NetworkXError"
  /\ target_metrics.computed =>
       /\ TargetMetricFields \subseteq DOMAIN target_metrics
       /\ \A metric \in raises : target_metrics[metric] = 0

\* C14 as stated: on the graph whose only node is the focal character and that
\* has no edge, the metrics do not raise, the density is 0, and every
\* centrality the model computes for the node, the normalized degree
\* centrality included, is reported as 0.
C14_SingleNodeAllZero ==
  (G.nodes = {TARGET_CHARACTER} /\ edges(G) = {}) =>
    /\ pc # "NetworkXError"
    /\ density(G) = <<0, 1>>
    /\ target_metrics.computed =>
         /\ target_metrics.degree_centrality[1] = 0
         /\ target_metrics.total_degree = 0
         /\ target_metrics.weighted_degree = 0
    /\ pc = "done" =>
         \A n \in G.nodes :
           "degree_centrality" \in DOMAIN all_metrics[n] =>
             all_metrics[n].degree_centrality[1] = 0

\* C16 as stated: in the per-node table, a library call that raises for one
\* metric does not keep the degree centrality, whose call returned, from being
\* reported for every node.
C16_MetricsIndependent ==
  pc = "done" =>
    \A n \in G.nodes : "degree_centrality" \in DOMAIN all_metrics[n]

----------------------------------------------------------------------------
(* Properties of the run on a missing or empty corpus *)

\* the run has stopped with an uncaught exception
Aborted == pc \in {"KeyError", "NetworkXError", "ZeroDivisionError", "ValueError"}

\* C15 as stated: with no chapters, and hence no event, the run goes through
\* extraction, aggregation with the sorted table, graph construction and the
\* metrics without an error, and its edge table is empty.
C15_EmptyCorpusCompletes ==
  DOMAIN chapters = {} /\ pc # "load" =>
    /\ ~Aborted
    /\ df_interactions = <<>>

----------------------------------------------------------------------------
(* Properties of the loading (specification SpecLoad) *)

\* the selected chapters whose cleaned file exists
Available == Range(selected_chapters) \cap DOMAIN files

\* the events of the chapters of a list, one chapter after the other
ExtractAll(order) ==
  LET F[i \in 0..Len(order)] ==
        IF i = 0 THEN <<>>
        ELSE F[i - 1] \o
             identify_interactions_advanced(files[order[i]],
               dict_get(build_character_dictionary, TARGET_CHARACTER),
               build_character_dictionary, order[i])
  IN F[Len(order)]

\* the aggregator's records after folding a list of events from empty
FoldAll(events) ==
  LET F[i \in 0..Len(events)] ==
        IF i = 0 THEN <<>> ELSE fold_interaction(F[i - 1], events[i])
  IN F[Len(events)]

\* the extraction loop has ended
ExtractionDone == pc \notin {"load", "extract"}

\* the aggregation loop has ended and the table was built
AggregationDone ==
  pc \in {"graph", "metrics", "all_metrics", "statistics", "done", "properties"}

\* once the loop of load_data has ended, the chapters loaded are exactly the
\* selected chapters whose file exists, each with the text of its file
LoadedAreAvailable ==
  (pc # "load" \/ loaded = Len(selected_chapters)) =>
    /\ DOMAIN chapters = Available
    /\ \A k \in Available : chapters[k] = files[k]

\* C17 as stated: when the file of a selected chapter is missing, the chapters
\* loaded are exactly the selected chapters whose file exists, every one of
\* them is processed, and the run does not abort.
C17_MissingChapterSkipped ==
  (\E k \in Range(selected_chapters) : k \notin DOMAIN files) =>
    /\ LoadedAreAvailable
    /\ ExtractionDone => all_interactions = ExtractAll(sorted(Available))
    /\ ~Aborted

\* C20: in whatever order the selected chapters are listed and loaded, the
\* events are committed in ascending chapter number, and the raw event log and
\* the aggregated records, context lists included, are those of the available
\* chapters taken in ascending chapter number.
C20_OrderIndependent ==
  /\ \A i, j \in DOMAIN all_interactions :
       i < j => all_interactions[i].chapter <= all_interactions[j].chapter
  /\ ExtractionDone => all_interactions = ExtractAll(sorted(Available))
  /\ AggregationDone => interaction_dict = FoldAll(ExtractAll(sorted(Available)))

\* the chapters were listed in descending order, both were loaded, and a key
\* has contexts from both chapters that differ
C20_Witness ==
  /\ AggregationDone
  /\ Len(selected_chapters) >= 2
  /\ selected_chapters[1] > selected_chapters[2]
  /\ {selected_chapters[1], selected_chapters[2]} \subseteq Available
  /\ \E k \in DOMAIN interaction_dict :
       /\ Len(interaction_dict[k].contexts) >= 2
       /\ interaction_dict[k].contexts[1] # interaction_dict[k].contexts[2]
       /\ Cardinality(interaction_dict[k].chapters) >= 2

----------------------------------------------------------------------------
(* Properties of the fold on any event stream (specification SpecFold) *)

\* the permutations of 1..n, as functions
OrdersOf(n) ==
  {p \in [1..n -> 1..n] : \A i, j \in 1..n : i # j => p[i] # p[j]}

\* the folded events in the order given by a permutation
Permuted(p) == [i \in 1..folded |-> FoldedEvents[p[i]]]

\* the key set and each key's frequency, type histogram and chapter set
Summary(dict) ==
  {[key      |-> dict[k].key,
    count    |-> dict[k].count,
    types    |-> Range(dict[k].types),
    chapters |-> dict[k].chapters] : k \in DOMAIN dict}

\* C19: folding the same events in any other order gives the same key set
\* and, for each key, the same frequency, the same count per type and the same
\* chapter set as the fold of the stream itself.
C19_FoldCommutative ==
  \A p \in OrdersOf(folded) :
    Summary(FoldAll(Permuted(p))) = Summary(interaction_dict)

\* a stream whose fold in another order has the same summary but other
\* records: a key with two types from two chapters
C19_Witness ==
  /\ folded = Len(all_interactions)
  /\ \E p \in OrdersOf(folded) : FoldAll(Permuted(p)) # interaction_dict
  /\ \E k \in DOMAIN interaction_dict :
       /\ Len(interaction_dict[k].types) >= 2
       /\ Cardinality(interaction_dict[k].chapters) >= 2
       /\ interaction_dict[k].contexts[1] # interaction_dict[k].contexts[2]

----------------------------------------------------------------------------
(* Properties of the order of the raw event log (specification Spec) *)

\* the events of the log that came from one chapter, in log order
EventsOfChapter(c) == SelectSeq(all_interactions, LAMBDA e : e.chapter = c)

\* the events can be given sentence indices of the list, each the index of a
\* sentence with the event's text, that never decrease along the events
AscendingSentenceIndex(events, sentences) ==
  LET P[i \in 0..Len(events)] ==
        IF i = 0 THEN 1
        ELSE IF P[i - 1] = 0 THEN 0
        ELSE LET later == {j \in P[i - 1]..Len(sentences) :
                             sentences[j] = events[i].sentence}
             IN IF later = {} THEN 0
                ELSE CHOOSE j \in later : \A j2 \in later : j <= j2
  IN P[Len(events)] # 0

\* the events of one key in the whole log, in log order
LogEventsOfKey(key) == SelectSeq(all_interactions, LAMBDA e : KeyOf(e) = key)

\* C21: the raw event log is in ascending chapter number and, within a
\* chapter, in ascending sentence index; so once every event is folded each
\* key's context list is the contexts of the key's three earliest events of
\* the log, in that order.
C21_LogOrderedByChapterAndSentence ==
  /\ \A i, j \in DOMAIN all_interactions :
       i < j => all_interactions[i].chapter <= all_interactions[j].chapter
  /\ \A c \in DOMAIN chapters :
       AscendingSentenceIndex(EventsOfChapter(c), re_split(chapters[c]))
  /\ (pc # "extract" /\ folded = Len(all_interactions)) =>
       \A k \in DOMAIN interaction_dict :
         LET evs == LogEventsOfKey(interaction_dict[k].key)
         IN interaction_dict[k].contexts =
              [i \in 1..Min(ContextLimit, Len(evs)) |-> evs[i].context]

\* two chapters gave events, one of them from two different sentences, and a
\* key has more events than its context list keeps
C21_Witness ==
  /\ pc # "extract"
  /\ folded = Len(all_interactions)
  /\ \E i, j \in DOMAIN all_interactions :
       all_interactions[i].chapter < all_interactions[j].chapter
  /\ \E i, j \in DOMAIN all_interactions :
       /\ i < j
       /\ all_interactions[i].chapter = all_interactions[j].chapter
       /\ all_interactions[i].sentence # all_interactions[j].sentence
  /\ \E k \in DOMAIN interaction_dict : interaction_dict[k].count > ContextLimit

----------------------------------------------------------------------------
(* Properties of the pipeline's own edges (specification Spec) *)

\* C22: the alias table handed to the extractor holds the focal character,
\* yet no event has its target equal to its source, so no row of the table and
\* no edge of the graph built from it joins a node to itself.
C22_NoSelfEvent ==
  /\ TARGET_CHARACTER \in CharacterNames
  /\ \A i \in DOMAIN all_interactions :
       /\ all_interactions[i].source = TARGET_CHARACTER
       /\ all_interactions[i].target # all_interactions[i].source
  /\ \A i \in DOMAIN df_interactions :
       df_interactions[i].Source # df_interactions[i].Target
  /\ \A n \in G.nodes : ~has_edge(G, n, n)

\* the graph was built from events of sentences that hold an alias of the
\* focal character's own entry of the table
C22_Witness ==
  /\ GraphBuilt
  /\ edges(G) # {}
  /\ \E i \in DOMAIN all_interactions :
       Mentions(all_interactions[i].sentence, TARGET_CHARACTER)

----------------------------------------------------------------------------
(* Properties of the node set (specification SpecGraph) *)

\* the ids the rows of the table refer to
ReferencedIds ==
  {df_interactions[i].Source : i \in DOMAIN df_interactions}
    \cup {df_interactions[i].Target : i \in DOMAIN df_interactions}

\* C23: the nodes of the built graph are exactly the ids that occur as Source
\* or Target of some row: every such id is a node and there is no other node.
C23_NodesAreReferencedIds ==
  GraphBuilt => G.nodes = ReferencedIds

\* a graph built from rows that do not mention the focal character
C23_Witness ==
  /\ GraphBuilt
  /\ Cardinality(G.nodes) = 2
  /\ TARGET_CHARACTER \notin G.nodes

----------------------------------------------------------------------------
(* Properties of the presented table (specification Spec) *)

\* the table was built, sorted and saved
TableBuilt ==
  pc \in {"graph", "metrics", "all_metrics", "statistics", "done", "NetworkXError",
          "properties", "ValueError"}

\* C24: in the saved table every row's Frequency is greater than or equal to
\* the Frequency of the row after it, and the rows are those of the records.
C24_TableDescending ==
  TableBuilt =>
    /\ \A i \in 1..(Len(df_interactions) - 1) :
         df_interactions[i].Frequency >= df_interactions[i + 1].Frequency
    /\ Range(df_interactions) = Range(interaction_list(interaction_dict))
    /\ Len(df_interactions) = Len(interaction_dict)

\* a table whose record of the highest Frequency was not the first record made
C24_Witness ==
  /\ TableBuilt
  /\ Len(df_interactions) >= 2
  /\ df_interactions[1].Frequency > df_interactions[2].Frequency
  /\ interaction_dict[1].count < interaction_dict[2].count

----------------------------------------------------------------------------
(* Properties of the alias matching (specification SpecExtract) *)

\* 薛姨媽
AuntXue == <<34203, 23016, 23229>>

\* the pairs (A, b): b is an alias of some character and holds an alias of the
\* character A, who is not the focal character
NestedAliases ==
  UNION {{<<nameA, b>> : b \in {b2 \in UNION {AliasesOf(nameB) : nameB \in CharacterNames} :
                                   \E a \in AliasesOf(nameA) : Contains(a, b2)}} :
           nameA \in CharacterNames \ {TARGET_CHARACTER}}

\* C25: whenever an alias of a character A other than the focal one lies
\* inside an alias of a character B and B's alias occurs in a sentence that
\* mentions the focal character, the sentence gives an event with target A;
\* the text 薛姨媽的女兒, whose only mention is that focal alias, gives
\* exactly one event, and its target is 薛姨媽.
C25_SubstringAliases ==
  Extracted =>
    /\ \A j \in DOMAIN ChapterSentences :
         Mentions(ChapterSentences[j], TARGET_CHARACTER) =>
           \A pair \in NestedAliases :
             Contains(pair[2], ChapterSentences[j]) =>
               \E i \in DOMAIN all_interactions :
                 /\ all_interactions[i].sentence = ChapterSentences[j]
                 /\ all_interactions[i].target = pair[1]
    /\ chapters[1] = DaughterAliasText =>
         /\ Len(all_interactions) = 1
         /\ all_interactions[1].source = TARGET_CHARACTER
         /\ all_interactions[1].target = AuntXue
         /\ all_interactions[1].type = "CoOccurrence"

\* the text 薛姨媽的女兒 has been extracted and holds no alias of 薛姨媽
\* outside the focal character's alias
C25_Witness ==
  /\ Extracted
  /\ chapters[1] = DaughterAliasText
  /\ DaughterAliasText \in AliasesOf(TARGET_CHARACTER)
  /\ AuntXue \in AliasesOf(AuntXue)
  /\ all_interactions # <<>>

----------------------------------------------------------------------------
(* Properties of the network statistics (specification SpecMetrics) *)

\* a directed path of the graph leads from u to v
PathExists(u, v) ==
  \E p \in SeqsUpTo(G.nodes, Cardinality(G.nodes)) :
    /\ p # <<>>
    /\ p[1] = u
    /\ p[Len(p)] = v
    /\ \A i \in 1..(Len(p) - 1) : has_edge(G, p[i], p[i + 1])

\* C26: the average shortest-path length is computed exactly when every node
\* has a directed path to every node; for every other graph it is not computed
\* and the report says so.
C26_PathLengthOnlyWhenStronglyConnected ==
  report.printed =>
    (report.average_path_length.computed
       <=> \A u, v \in G.nodes : PathExists(u, v))

\* the statistics of a graph that is connected but not strongly connected
C26_Witness ==
  /\ report.printed
  /\ ~report.average_path_length.computed
  /\ Cardinality(G.nodes) >= 2
  /\ \A u \in G.nodes \ {TARGET_CHARACTER} : has_edge(G, TARGET_CHARACTER, u)

----------------------------------------------------------------------------
(* Properties of the undirected projection (specification SpecGraph) *)

\* C27 as stated: in the undirected projection the metrics are computed on,
\* two nodes joined by a directed edge in each direction are joined by one
\* undirected edge whose weight is the sum of the two directed weights.
C27_ReciprocalWeightsSummed ==
  G_undirected.made =>
    \A u, v \in G.nodes :
      (u # v /\ has_edge(G, u, v) /\ has_edge(G, v, u)) =>
        /\ {u, v} \in DOMAIN G_undirected.graph.weight
        /\ G_undirected.graph.weight[{u, v}] = G.weight[<<u, v>>] + G.weight[<<v, u>>]

----------------------------------------------------------------------------
(* The metrics leave the graph alone (specification SpecMetrics) *)

\* the positions from which the next step is calculate_centrality_metrics,
\* get_all_centrality_metrics or calculate_network_properties
MetricsStep ==
  pc \in {"metrics", "all_metrics", "done", "NetworkXError", "ZeroDivisionError"}

\* C28: whenever calculate_centrality_metrics, get_all_centrality_metrics or
\* calculate_network_properties runs, whether its library calls return or
\* raise, the graph has the same nodes, the same edges and the same weight on
\* every edge afterwards.
C28_MetricsLeaveGraph ==
  [][MetricsStep => (G'.nodes = G.nodes /\ G'.weight = G.weight)]_vars

\* the three functions have run on a graph with an edge in each direction
\* between two nodes, and one guarded library call raised
C28_Witness ==
  /\ pc = "properties"
  /\ target_metrics.computed
  /\ all_metrics # <<>>
  /\ network_props.computed
  /\ raises # {}
  /\ \E u, v \in G.nodes : u # v /\ has_edge(G, u, v) /\ has_edge(G, v, u)

----------------------------------------------------------------------------
(* Consistency of an aggregated record (specification SpecFold) *)

\* C29: after any prefix of the event stream has been folded, in every record
\* the counts of the type histogram add up to the frequency, the chapter set
\* is the set of the chapters of the folded events of the key, and the number
\* of chapters is at least 1 and at most the frequency.
C29_RecordConsistent ==
  \A k \in DOMAIN interaction_dict :
    LET rec == interaction_dict[k]
        events == EventsOfKey(rec.key)
    IN /\ SumOver([i \in DOMAIN rec.types |-> rec.types[i][2]], DOMAIN rec.types) = rec.count
       /\ rec.chapters = {events[i].chapter : i \in DOMAIN events}
       /\ 1 <= Cardinality(rec.chapters)
       /\ Cardinality(rec.chapters) <= rec.count

\* a record of three events of two types, two of them from the same chapter
C29_Witness ==
  \E k \in DOMAIN interaction_dict :
    /\ interaction_dict[k].count = 3
    /\ Len(interaction_dict[k].types) = 2
    /\ Cardinality(interaction_dict[k].chapters) = 2

----------------------------------------------------------------------------
(* Shape of the graph of the pipeline's own table (specification Spec) *)

\* C30: the graph built from the table the pipeline aggregated is an ego
\* network: every edge leaves the focal character, the focal node has
\* in-degree 0 and as many outgoing edges as the table has rows, every other
\* node has in-degree 1 and out-degree 0; the graph has an edge and is not
\* strongly connected, and the statistics never hold an average path length.
C30_EgoNetwork ==
  GraphBuilt =>
    /\ \A e \in edges(G) : e[1] = TARGET_CHARACTER
    /\ TARGET_CHARACTER \in G.nodes
    /\ in_degree(G, TARGET_CHARACTER) = 0
    /\ out_degree(G, TARGET_CHARACTER) = Len(df_interactions)
    /\ \A n \in G.nodes \ {TARGET_CHARACTER} :
         in_degree(G, n) = 1 /\ out_degree(G, n) = 0
    /\ edges(G) # {}
    /\ \E u, v \in G.nodes : ~PathExists(u, v)
    /\ report.printed => ~report.average_path_length.computed

\* the statistics of a graph of two edges have been printed
C30_Witness ==
  /\ pc = "done"
  /\ report.printed
  /\ Cardinality(edges(G)) >= 2
  /\ Len(df_interactions) >= 2

====
